---- MODULE Spec2Model ----
(***************************************************************************)
(* Synced-Pygame: the length-prefixed framing protocol (protocol.py) and   *)
(* the authoritative server (server.py): the accept thread, the tick loop  *)
(* and the sockets between the server and its clients.                     *)
(*                                                                         *)
(* Bytes are one-character strings; a byte string (bytes or str, the model *)
(* is ASCII only) is a sequence of them.                                   *)
(***************************************************************************)
EXTENDS Integers, Sequences, FiniteSets, TLC

(***************************************************************************)
(* Bounds of the model.                                                    *)
(***************************************************************************)
MaxClients == 2      \* connections that are ever made to the server
MaxMsgs == 1         \* frames a client writes during its connection
MaxTicks == 2        \* iterations of the tick loop that run to completion
MaxFrames == 2       \* frames written to the channel of the framing runs
GridMax == 3         \* segment_check runs: coordinates are 0 .. GridMax
SizeMax == 2         \* segment_check runs: box widths and heights are 0 .. SizeMax
StatPosMax == 2      \* static_body_check runs: corners are 0 .. StatPosMax
StatSizeMax == 5     \* static_body_check runs: widths and heights are 1 .. StatSizeMax
MaxPhysTicks == 5    \* simulation runs: ticks of one Player
MaxBroadcasts == 2   \* client runs: state broadcasts the server writes to the client
MaxInputs == 1       \* client runs: input messages the client writes before it quits
MaxHeaderLen == 60   \* header runs: every payload length 0 .. MaxHeaderLen is tried

(***************************************************************************)
(* Program constants.                                                      *)
(***************************************************************************)
LENGTH_HEADER == 8
SPAWN_X == 130
SPAWN_Y == 100
FRICTION_DIV == 10   \* FRICTION = 0.1: v * FRICTION is v / 10
FP == 100000         \* fixed point: FP units are 1.0

Clients == 1 .. MaxClients

(***************************************************************************)
(* Byte strings.                                                           *)
(***************************************************************************)
Digits == <<"0", "1", "2", "3", "4", "5", "6", "7", "8", "9">>

IsDigit(b) == \E i \in 1 .. 10 : Digits[i] = b

DigitVal(b) == (CHOOSE i \in 1 .. 10 : Digits[i] = b) - 1

RECURSIVE Str(_)
\* str(n) of a non-negative int: its decimal digits
Str(n) == IF n < 10 THEN <<Digits[n + 1]>> ELSE Str(n \div 10) \o <<Digits[(n % 10) + 1]>>

RECURSIVE ZFill(_, _)
\* str.zfill(width): pads on the left, never truncates
ZFill(s, width) == IF Len(s) >= width THEN s ELSE ZFill(<<"0">> \o s, width)

RECURSIVE DigitsVal(_)
DigitsVal(s) == IF s = <<>> THEN 0 ELSE DigitsVal(SubSeq(s, 1, Len(s) - 1)) * 10 + DigitVal(s[Len(s)])

AllDigits(s) == s # <<>> /\ \A i \in 1 .. Len(s) : IsDigit(s[i])

\* int(bytes): an optional sign and at least one digit, else ValueError.
\* (Python also takes surrounding blanks and single underscores between
\* digits; no byte of the model is one of those.)
ParseInt(s) ==
    IF AllDigits(s) THEN [ok |-> TRUE, val |-> DigitsVal(s)]
    ELSE IF Len(s) >= 2 /\ s[1] \in {"-", "+"} /\ AllDigits(Tail(s))
    THEN [ok |-> TRUE, val |-> IF s[1] = "-" THEN 0 - DigitsVal(Tail(s)) ELSE DigitsVal(Tail(s))]
    ELSE [ok |-> FALSE, val |-> 0]

Min(a, b) == IF a < b THEN a ELSE b

RECURSIVE Pow(_, _)
Pow(b, k) == IF k = 0 THEN 1 ELSE b * Pow(b, k - 1)

(***************************************************************************)
(* JSON documents of the wire.                                             *)
(***************************************************************************)
QUIT_DOC == <<"[", "\"", "Q", "U", "I", "T", "\"", "]">>            \* json.dumps(["QUIT"])
RIGHT_DOC == <<"[", "\"", "R", "I", "G", "H", "T", "\"", "]">>      \* json.dumps(["RIGHT"])
EMPTY_DOC == <<"[", "]">>                                           \* json.dumps([])
NULL_DOC == <<"n", "u", "l", "l">>                                  \* valid JSON, not a list
BAD_DOC == <<"{">>                                                  \* not JSON
ACK_TEXT == <<"Q", "U", "I", "T">>                                  \* the server's acknowledgement

IsLetter(b) == b \in {"Q", "U", "I", "T", "R", "G", "H", "n", "u", "l"}

IsJsonString(s) ==
    /\ Len(s) >= 2
    /\ s[1] = "\""
    /\ s[Len(s)] = "\""
    /\ \A i \in 2 .. Len(s) - 1 : IsLetter(s[i])

IsJsonNumber(s) ==
    LET d == IF s # <<>> /\ s[1] = "-" THEN Tail(s) ELSE s
    IN  AllDigits(d) /\ (Len(d) = 1 \/ d[1] # "0")

\* json.loads(text): a value, or kind "error" for JSONDecodeError
JsonLoads(text) ==
    IF text = EMPTY_DOC THEN [kind |-> "list", items |-> {}]
    ELSE IF Len(text) >= 4 /\ text[1] = "[" /\ text[Len(text)] = "]"
            /\ IsJsonString(SubSeq(text, 2, Len(text) - 1))
    THEN [kind |-> "list", items |-> {SubSeq(text, 3, Len(text) - 2)}]
    ELSE IF IsJsonString(text) THEN [kind |-> "string", items |-> {SubSeq(text, 2, Len(text) - 1)}]
    ELSE IF text = NULL_DOC THEN [kind |-> "null", items |-> {}]
    ELSE IF IsJsonNumber(text) THEN [kind |-> "number", items |-> {}]
    ELSE [kind |-> "error", items |-> {}]

RECURSIVE IsSubstring(_, _)
IsSubstring(a, s) ==
    IF Len(a) > Len(s) THEN FALSE
    ELSE IF SubSeq(s, 1, Len(a)) = a THEN TRUE
    ELSE IsSubstring(a, Tail(s))

\* `word in message`: membership for a list, substring for a str, and
\* TypeError (kind "raise") for a value that is not a container
Contains(word, value) ==
    IF value.kind = "list" THEN IF word \in value.items THEN "yes" ELSE "no"
    ELSE IF value.kind = "string"
    THEN IF \E s \in value.items : IsSubstring(word, s) THEN "yes" ELSE "no"
    ELSE "raise"

(***************************************************************************)
(* Sockets.  The state of the remote end as the local end sees it:         *)
(*   "open"    connected                                                   *)
(*   "closed"  the remote end closed (FIN): reads drain the buffer and     *)
(*             then return b"", the next write is answered by a reset      *)
(*   "reset"   the connection was reset: reads and writes raise            *)
(***************************************************************************)
PeerStates == {"open", "closed", "reset"}

\* socket.recv(n) on a blocking socket: a negative n raises ValueError and
\* n = 0 returns b"", both before the socket is touched
SockRecv(buf, peerState, n) ==
    IF n < 0 THEN [kind |-> "ValueError", data |-> <<>>, rest |-> buf]
    ELSE IF n = 0 THEN [kind |-> "data", data |-> <<>>, rest |-> buf]
    ELSE IF peerState = "reset"
    THEN [kind |-> "ConnectionResetError", data |-> <<>>, rest |-> <<>>]
    ELSE IF buf # <<>>
    THEN [kind |-> "data", data |-> SubSeq(buf, 1, Min(n, Len(buf))),
          rest |-> SubSeq(buf, Min(n, Len(buf)) + 1, Len(buf))]
    ELSE IF peerState = "closed" THEN [kind |-> "data", data |-> <<>>, rest |-> <<>>]
    ELSE [kind |-> "block", data |-> <<>>, rest |-> buf]

\* select.select([sock], [], [], 0): readable
Readable(buf, peerState) == buf # <<>> \/ peerState # "open"

\* socket.send(data): "ok", or the fault it raises
SockSend(peerState) == IF peerState = "reset" THEN "BrokenPipeError" ELSE "ok"

\* the remote end's state after a write of the local end
AfterSend(peerState) == IF peerState = "closed" THEN "reset" ELSE peerState

\* the header without its padding
HeaderOfUnpadded(data_length) == Str(data_length)

\* send_message: str(data_length).zfill(LENGTH_HEADER)
HeaderOf(data_length) == ZFill(Str(data_length), LENGTH_HEADER)

\* send_message: the bytes written for a payload
Frame(payload) == HeaderOf(Len(payload)) \o payload

(***************************************************************************)
(* protocol.receive_message, one socket call at a time.                    *)
(***************************************************************************)
\* the first recv and int(): the call returns QUIT_DOC ("return"), goes on
\* to read the payload ("payload"), or waits for bytes ("block")
RecvHeader(buf, peerState) ==
    LET r == SockRecv(buf, peerState, LENGTH_HEADER)
        n == ParseInt(r.data)
    IN  IF r.kind = "block" THEN [kind |-> "block", value |-> <<>>, len |-> 0, rest |-> buf]
        ELSE IF r.kind = "ConnectionResetError"
        THEN [kind |-> "return", value |-> QUIT_DOC, len |-> 0, rest |-> r.rest]
        ELSE IF ~n.ok THEN [kind |-> "return", value |-> QUIT_DOC, len |-> 0, rest |-> r.rest]
        ELSE [kind |-> "payload", value |-> <<>>, len |-> n.val, rest |-> r.rest]

\* the second recv and decode(): the call returns ("return"), raises
\* ("raise", with the fault) or waits for bytes ("block")
RecvPayload(buf, peerState, n) ==
    LET r == SockRecv(buf, peerState, n)
    IN  IF r.kind = "block" THEN [kind |-> "block", value |-> <<>>, fault |-> "", rest |-> buf]
        ELSE IF r.kind = "ValueError"
        THEN [kind |-> "return", value |-> QUIT_DOC, fault |-> "", rest |-> r.rest]
        ELSE IF r.kind = "ConnectionResetError"
        THEN [kind |-> "raise", value |-> <<>>, fault |-> "ConnectionResetError", rest |-> r.rest]
        ELSE [kind |-> "return", value |-> r.data, fault |-> "", rest |-> r.rest]

(***************************************************************************)
(* State.                                                                  *)
(***************************************************************************)
VARIABLES
    chPc,       \* receive_message: "idle", "header", "payload" or "raised"
    chWire,     \* bytes written by the sender that have not arrived yet
    chBuf,      \* bytes that arrived and were not read yet
    chPeer,     \* the sender's end as the receiver sees it
    chLen,      \* data_length
    chSent,     \* the payloads given to send_message, in order
    chGot,      \* the results of the receive_message calls, in order
    chRaw       \* the sender wrote bytes that are not a frame

chVars == <<chPc, chWire, chBuf, chPeer, chLen, chSent, chGot, chRaw>>

VARIABLES
    conn,         \* per client: "none", "pending" (in the listen backlog) or "accepted"
    backlog,      \* the connections waiting in server_socket.accept, in order
    peer,         \* per client: the client's end as the server's socket sees it
    srvClosed,    \* per client: the server called client_socket.close()
    inbuf,        \* per client: bytes that arrived at the server and were not read yet
    wire,         \* per client: bytes the client wrote that have not arrived yet
    nsent,        \* per client: frames the client wrote
    outbox,       \* per client: the messages the server wrote to its socket, in order
    acceptPc,     \* receive_clients: "accept", "send_id", "insert", "post" or "dead"
    acceptId,     \* client_id of receive_clients
    client_dict,  \* the roster: its keys in insertion order
    player,       \* per identity: the Player object, NoPlayer before its construction
    events,       \* the pygame event queue: the client_id of each EVENT_PLAYER_JOINED
    sprites,      \* the Player sprites of the group `sprites`
    mainPc,       \* main: "events", "get_input", "poll", "recv_payload", "update",
                  \* "send_state", "broadcast" or "crashed"
    todo,         \* get_input: the rest of list(client_dict.items())
    dataLen,      \* receive_message: data_length
    inputs,       \* get_input: inputs
    message,      \* get_input: the text receive_message returned last
    fullState,    \* send_state: full_state
    iterPos,      \* send_state: entries the dict iterator has yielded
    iterSize,     \* send_state: the size of the dict when the iteration began
    tick,         \* completed iterations of the tick loop
    fault,        \* the exception that ended main or receive_clients, "" if none
    joined,       \* history: identities whose join signal the event drain consumed
    polled,       \* history: identities get_input has polled
    updated,      \* history: identities whose Player.update was called
    recipients,   \* history: identities a state broadcast was written to
    quitRead      \* history: identities get_input read a disconnect intent from

netVars == <<conn, backlog, peer, srvClosed, inbuf, wire, nsent, outbox>>
acceptVars == <<acceptPc, acceptId>>
loopVars == <<mainPc, todo, dataLen, inputs, message, fullState, iterPos, iterSize, tick>>
histVars == <<joined, polled, updated, recipients, quitRead>>
srvVars == <<netVars, acceptVars, client_dict, player, events, sprites, loopVars, fault, histVars>>

VARIABLES
    gKind,      \* the collision run: "none", "segment" or "static"
    gStart,     \* segment_check: start
    gEnd,       \* segment_check: end
    gBox,       \* segment_check: box; static_body_check: box2
    gBox1,      \* static_body_check: box1
    gSeg,       \* what segment_check returned
    gStat,      \* what static_body_check returned
    gDone       \* the function of the run has returned

geoVars == <<gKind, gStart, gEnd, gBox, gBox1, gSeg, gStat, gDone>>

\* one Player stepped tick by tick
VARIABLES
    pPlayer,        \* the Player
    pStart,         \* the Player before its first tick
    pHist           \* the actions of its ticks so far, in order

physVars == <<pPlayer, pStart, pHist>>

\* one header written by send_message
VARIABLES
    hLen,           \* len(data), the payload's length in bytes
    hOut,           \* the bytes written in front of the payload
    hDone           \* send_message has built its bytes

hdrVars == <<hLen, hOut, hDone>>

\* one client process: its main loop, its receive thread and its connection
VARIABLES
    cWire,        \* bytes the server wrote that have not arrived yet
    cBuf,         \* bytes that arrived at the client and were not read yet
    cPeer,        \* the server's end as the client's socket sees it
    cSrvClosed,   \* the server closed its socket of this client
    cUp,          \* the client's messages the server has not read yet, in order
    cSeq,         \* state broadcasts the server wrote to this client
    state,        \* the snapshot: per category the broadcast its content is of, 0 if absent
    rxPc,         \* receive_state: "header", "payload", "returned" or "fault"
    rxLen,        \* receive_message: data_length
    cMainPc,      \* main: "input", "draw_state", "draw_state_loop", "draw",
                  \* "draw_loop", "exited" or "crashed"
    itSize,       \* the draw loop's iterator: len(state) when it was made
    itPos,        \* the draw loop's iterator: entries it has yielded
    drawn,        \* the broadcasts the categories drawn in this pass are of, in order
    nInputs       \* input messages the client wrote

cliVars == <<cWire, cBuf, cPeer, cSrvClosed, cUp, cSeq, state, rxPc, rxLen,
             cMainPc, itSize, itPos, drawn, nInputs>>

vars == <<chVars, srvVars, geoVars, physVars, hdrVars, cliVars>>

\* what the steps of each specification leave alone
offServer == <<chVars, geoVars, physVars, hdrVars, cliVars>>
offChannel == <<srvVars, geoVars, physVars, hdrVars, cliVars>>
offGeo == <<chVars, srvVars, physVars, hdrVars, cliVars>>
offPhys == <<chVars, srvVars, geoVars, hdrVars, cliVars>>
offHdr == <<chVars, srvVars, geoVars, physVars, cliVars>>
offClient == <<chVars, srvVars, geoVars, physVars, hdrVars>>

(***************************************************************************)
(* The framing runs: one sender, one receiver, one ordered byte stream.    *)
(***************************************************************************)
Payloads == {<<>>, <<"7">>, EMPTY_DOC}

GarbledHeaders ==
    { <<"n", "u", "l", "l", "n", "u", "l", "l">>,
      <<"-", "0", "0", "0", "0", "0", "0", "1">> }

ChInit ==
    /\ chPc = "idle"
    /\ chWire = <<>>
    /\ chBuf = <<>>
    /\ chPeer = "open"
    /\ chLen = 0
    /\ chSent = <<>>
    /\ chGot = <<>>
    /\ chRaw = FALSE

\* send_message(sock, payload) of the sender
ChSend(p) ==
    /\ chPeer = "open"
    /\ ~chRaw
    /\ Len(chSent) < MaxFrames
    /\ chWire' = chWire \o Frame(p)
    /\ chSent' = Append(chSent, p)
    /\ UNCHANGED <<chPc, chBuf, chPeer, chLen, chGot, chRaw>>
    /\ UNCHANGED offChannel

\* a garbled peer: eight bytes that are no length header
ChGarble(h) ==
    /\ chPeer = "open"
    /\ ~chRaw
    /\ chWire' = chWire \o h
    /\ chRaw' = TRUE
    /\ UNCHANGED <<chPc, chBuf, chPeer, chLen, chSent, chGot>>
    /\ UNCHANGED offChannel

\* the stream hands the receiver the next k bytes
ChDeliver(k) ==
    /\ k <= Len(chWire)
    /\ chBuf' = chBuf \o SubSeq(chWire, 1, k)
    /\ chWire' = SubSeq(chWire, k + 1, Len(chWire))
    /\ UNCHANGED <<chPc, chPeer, chLen, chSent, chGot, chRaw>>
    /\ UNCHANGED offChannel

\* the sender closes its end; the FIN follows the bytes written
ChClose ==
    /\ chPeer = "open"
    /\ chWire = <<>>
    /\ chPeer' = "closed"
    /\ UNCHANGED <<chPc, chWire, chBuf, chLen, chSent, chGot, chRaw>>
    /\ UNCHANGED offChannel

\* the connection is reset; unread bytes are discarded
ChReset ==
    /\ chPeer # "reset"
    /\ chPeer' = "reset"
    /\ chWire' = <<>>
    /\ chBuf' = <<>>
    /\ UNCHANGED <<chPc, chLen, chSent, chGot, chRaw>>
    /\ UNCHANGED offChannel

\* the receiver calls receive_message
RmCall ==
    /\ chPc = "idle"
    /\ Len(chGot) < MaxFrames + 1
    /\ chPc' = "header"
    /\ UNCHANGED <<chWire, chBuf, chPeer, chLen, chSent, chGot, chRaw>>
    /\ UNCHANGED offChannel

Result(value, gone) == [value |-> value, gone |-> gone]

\* data_length_bytes = recv(LENGTH_HEADER); data_length = int(...)
RmHeader ==
    /\ chPc = "header"
    /\ LET r == RecvHeader(chBuf, chPeer)
       IN  /\ r.kind # "block"
           /\ chBuf' = r.rest
           /\ IF r.kind = "return"
              THEN /\ chGot' = Append(chGot, Result(r.value, TRUE))
                   /\ chPc' = "idle"
                   /\ chLen' = chLen
              ELSE /\ chGot' = chGot
                   /\ chPc' = "payload"
                   /\ chLen' = r.len
    /\ UNCHANGED <<chWire, chPeer, chSent, chRaw>>
    /\ UNCHANGED offChannel

\* data = recv(data_length); return data.decode()
RmPayload ==
    /\ chPc = "payload"
    /\ LET r == RecvPayload(chBuf, chPeer, chLen)
       IN  /\ r.kind # "block"
           /\ chBuf' = r.rest
           /\ IF r.kind = "raise"
              THEN /\ chPc' = "raised"
                   /\ chGot' = chGot
              ELSE /\ chPc' = "idle"
                   /\ chGot' = Append(chGot, Result(r.value, chLen # 0 /\ chBuf = <<>>))
    /\ UNCHANGED <<chWire, chPeer, chLen, chSent, chRaw>>
    /\ UNCHANGED offChannel

ChNext ==
    \/ \E p \in Payloads : ChSend(p)
    \/ \E h \in GarbledHeaders : ChGarble(h)
    \/ \E k \in 1 .. (LENGTH_HEADER + 2) * MaxFrames : ChDeliver(k)
    \/ ChClose
    \/ ChReset
    \/ RmCall
    \/ RmHeader
    \/ RmPayload

(***************************************************************************)
(* objects.py: the Player and its simulation step, in fixed point.         *)
(***************************************************************************)
NoPlayer == [x |-> 0 - 1, y |-> 0 - 1, vx |-> 0, vy |-> 0, made |-> FALSE]

\* Player(id, x, y, color)
NewPlayer(x, y) == [x |-> x * FP, y |-> y * FP, vx |-> 0, vy |-> 0, made |-> TRUE]

\* Player.setPos(x, y)
SetPos(p, x, y) == [p EXCEPT !.x = x * FP, !.y = y * FP]

\* v * FRICTION
Friction(v) == IF v >= 0 THEN v \div FRICTION_DIV ELSE 0 - ((0 - v) \div FRICTION_DIV)

Has(word, actions) == IF Contains(word, actions) = "yes" THEN 1 ELSE 0

\* Player.update with the position advanced before the velocity
UpdatePositionFirst(p, actions) ==
    LET fx == Has(<<"R", "I", "G", "H", "T">>, actions) - Has(<<"L", "E", "F", "T">>, actions)
        fy == Has(<<"D", "O", "W", "N">>, actions) - Has(<<"U", "P">>, actions)
        ax == fx * FP - Friction(p.vx)
        ay == fy * FP - Friction(p.vy)
    IN  [p EXCEPT !.vx = p.vx + ax, !.vy = p.vy + ay,
                  !.x = p.x + p.vx, !.y = p.y + p.vy]

\* Player.update(actions)
Update(p, actions) ==
    LET fx == Has(<<"R", "I", "G", "H", "T">>, actions) - Has(<<"L", "E", "F", "T">>, actions)
        fy == Has(<<"D", "O", "W", "N">>, actions) - Has(<<"U", "P">>, actions)
        ax == fx * FP - Friction(p.vx)
        ay == fy * FP - Friction(p.vy)
    IN  [p EXCEPT !.vx = p.vx + ax, !.vy = p.vy + ay,
                  !.x = p.x + p.vx + ax, !.y = p.y + p.vy + ay]

\* init_level(): the rect of each Obstacle
LevelLayout ==
    { [X |-> 0, Y |-> 500, WIDTH |-> 800, HEIGHT |-> 100],
      [X |-> 0, Y |-> 0, WIDTH |-> 100, HEIGHT |-> 600],
      [X |-> 700, Y |-> 0, WIDTH |-> 100, HEIGHT |-> 600],
      [X |-> 200, Y |-> 200, WIDTH |-> 100, HEIGHT |-> 100],
      [X |-> 400, Y |-> 200, WIDTH |-> 100, HEIGHT |-> 100] }

(***************************************************************************)
(* objects.py: the collision engine.  A pygame.Rect is a record            *)
(* [left, top, width, height] of integers, y grows downwards.  The         *)
(* quotients r, t0 and t1 of segment_check are exact fractions [n, d] with *)
(* d > 0, and so are the coordinates of its intersection point.            *)
(***************************************************************************)
Rect(left, top, width, height) == [left |-> left, top |-> top, width |-> width, height |-> height]

RectRight(b) == b.left + b.width

RectBottom(b) == b.top + b.height

\* Rect.centerx, Rect.centery: integers
CenterX(b) == b.left + (b.width \div 2)

CenterY(b) == b.top + (b.height \div 2)

Abs(n) == IF n < 0 THEN 0 - n ELSE n

\* q / p for p # 0
Frac(q, p) == IF p < 0 THEN [n |-> 0 - q, d |-> 0 - p] ELSE [n |-> q, d |-> p]

FracLess(a, b) == a.n * b.d < b.n * a.d

Miss == [hit |-> FALSE, px |-> Frac(0, 1), py |-> Frac(0, 1), side |-> 0 - 1]

RECURSIVE SegmentLoop(_, _, _, _, _, _, _, _)
\* for i in range(4), from side i on (p and q are 1-based here)
SegmentLoop(start, end, p, q, i, t0, t1, side_hit) ==
    IF i > 4
    THEN [hit |-> TRUE,
          px |-> [n |-> start[1] * t0.d + t0.n * (end[1] - start[1]), d |-> t0.d],
          py |-> [n |-> start[2] * t0.d + t0.n * (end[2] - start[2]), d |-> t0.d],
          side |-> side_hit]
    ELSE IF p[i] = 0
    THEN IF q[i] < 0 THEN Miss
         ELSE SegmentLoop(start, end, p, q, i + 1, t0, t1, side_hit)
    ELSE IF p[i] < 0
    THEN IF FracLess(t1, Frac(q[i], p[i])) THEN Miss
         ELSE IF FracLess(t0, Frac(q[i], p[i]))
         THEN SegmentLoop(start, end, p, q, i + 1, Frac(q[i], p[i]), t1, i - 1)
         ELSE SegmentLoop(start, end, p, q, i + 1, t0, t1, side_hit)
    ELSE IF FracLess(Frac(q[i], p[i]), t0) THEN Miss
         ELSE IF FracLess(Frac(q[i], p[i]), t1)
         THEN SegmentLoop(start, end, p, q, i + 1, t0, Frac(q[i], p[i]), side_hit)
         ELSE SegmentLoop(start, end, p, q, i + 1, t0, t1, side_hit)

\* segment_check with q[0] = box.left - start[0]
SegmentCheckSignSlip(start, end, box) ==
    LET deltaX == end[1] - start[1]
        deltaY == end[2] - start[2]
        p == <<0 - deltaX, deltaX, 0 - deltaY, deltaY>>
        q == <<box.left - start[1], RectRight(box) - start[1],
               start[2] - box.top, RectBottom(box) - start[2]>>
    IN  SegmentLoop(start, end, p, q, 1, Frac(0, 1), Frac(1, 1), 0 - 1)

\* segment_check with side_hit = 0 at the start
SegmentCheckSideZero(start, end, box) ==
    LET deltaX == end[1] - start[1]
        deltaY == end[2] - start[2]
        p == <<0 - deltaX, deltaX, 0 - deltaY, deltaY>>
        q == <<start[1] - box.left, RectRight(box) - start[1],
               start[2] - box.top, RectBottom(box) - start[2]>>
    IN  SegmentLoop(start, end, p, q, 1, Frac(0, 1), Frac(1, 1), 0)

\* segment_check(start, end, box)
SegmentCheck(start, end, box) ==
    LET deltaX == end[1] - start[1]
        deltaY == end[2] - start[2]
        p == <<0 - deltaX, deltaX, 0 - deltaY, deltaY>>
        q == <<start[1] - box.left, RectRight(box) - start[1],
               start[2] - box.top, RectBottom(box) - start[2]>>
    IN  SegmentLoop(start, end, p, q, 1, Frac(0, 1), Frac(1, 1), 0 - 1)

\* static_body_check with its comparison of the gaps turned around
StaticBodyCheckFlipped(box1, box2) ==
    LET delta_x == CenterX(box2) - CenterX(box1)
        gap_x2 == 2 * Abs(delta_x) - box1.width - box2.width
        delta_y == CenterY(box2) - CenterY(box1)
        gap_y2 == 2 * Abs(delta_y) - box1.height - box2.height
    IN  IF Abs(gap_x2) < Abs(gap_y2)
        THEN IF delta_y < 0
             THEN [hit |-> TRUE, x |-> box1.left, y |-> RectBottom(box2), side |-> 2]
             ELSE [hit |-> TRUE, x |-> box1.left, y |-> box2.top - box1.height - 1, side |-> 3]
        ELSE IF delta_x < 0
             THEN [hit |-> TRUE, x |-> RectRight(box1), y |-> box1.top, side |-> 0]
             ELSE [hit |-> TRUE, x |-> box2.left - box1.width, y |-> box1.top, side |-> 1]

\* static_body_check(box1, box2); the gaps are doubled to stay integers
StaticBodyCheck(box1, box2) ==
    LET delta_x == CenterX(box2) - CenterX(box1)
        gap_x2 == 2 * Abs(delta_x) - box1.width - box2.width
        delta_y == CenterY(box2) - CenterY(box1)
        gap_y2 == 2 * Abs(delta_y) - box1.height - box2.height
    IN  IF Abs(gap_x2) > Abs(gap_y2)
        THEN IF delta_y < 0
             THEN [hit |-> TRUE, x |-> box1.left, y |-> RectBottom(box2), side |-> 2]
             ELSE [hit |-> TRUE, x |-> box1.left, y |-> box2.top - box1.height - 1, side |-> 3]
        ELSE IF delta_x < 0
             THEN [hit |-> TRUE, x |-> RectRight(box1), y |-> box1.top, side |-> 0]
             ELSE [hit |-> TRUE, x |-> box2.left - box1.width, y |-> box1.top, side |-> 1]

(***************************************************************************)
(* The server: initial state.                                              *)
(***************************************************************************)
EmptyMap == [c \in {} |-> 0]

Range(seq) == {seq[i] : i \in 1 .. Len(seq)}

Remove(seq, c) == SelectSeq(seq, LAMBDA d : d # c)

SrvInit ==
    /\ conn = [c \in Clients |-> "none"]
    /\ backlog = <<>>
    /\ peer = [c \in Clients |-> "open"]
    /\ srvClosed = [c \in Clients |-> FALSE]
    /\ inbuf = [c \in Clients |-> <<>>]
    /\ wire = [c \in Clients |-> <<>>]
    /\ nsent = [c \in Clients |-> 0]
    /\ outbox = [c \in Clients |-> <<>>]
    /\ acceptPc = "accept"
    /\ acceptId = 0
    /\ client_dict = <<>>
    /\ player = [c \in Clients |-> NoPlayer]
    /\ events = <<>>
    /\ sprites = {}
    /\ mainPc = "events"
    /\ todo = <<>>
    /\ dataLen = 0
    /\ inputs = EmptyMap
    /\ message = <<>>
    /\ fullState = [LEVEL_LAYOUT |-> {}, PLAYERS |-> EmptyMap]
    /\ iterPos = 0
    /\ iterSize = 0
    /\ tick = 0
    /\ fault = ""
    /\ joined = {}
    /\ polled = {}
    /\ updated = {}
    /\ recipients = {}
    /\ quitRead = {}

(***************************************************************************)
(* The clients, as the server's sockets see them.                          *)
(***************************************************************************)
ClientDocs == {QUIT_DOC, RIGHT_DOC, NULL_DOC, BAD_DOC}

\* how many bytes of a frame arrive at once: part of the header, the header
\* alone, or the whole frame
Cuts == {3, LENGTH_HEADER, LENGTH_HEADER + 9}

\* client.main: socket.connect
ClientConnect(c) ==
    /\ conn[c] = "none"
    /\ \A d \in Clients : d < c => conn[d] # "none"
    /\ conn' = [conn EXCEPT ![c] = "pending"]
    /\ backlog' = Append(backlog, c)
    /\ UNCHANGED <<peer, srvClosed, inbuf, wire, nsent, outbox>>
    /\ UNCHANGED <<acceptVars, client_dict, player, events, sprites, loopVars, fault, histVars>>
    /\ UNCHANGED offServer

\* client.main: send_message(client_socket, doc), of which k bytes arrive
ClientSend(c, doc, k) ==
    /\ conn[c] = "accepted"
    /\ outbox[c] # <<>>
    /\ peer[c] = "open"
    /\ ~srvClosed[c]
    /\ wire[c] = <<>>
    /\ nsent[c] < MaxMsgs
    /\ nsent' = [nsent EXCEPT ![c] = @ + 1]
    /\ inbuf' = [inbuf EXCEPT ![c] = @ \o SubSeq(Frame(doc), 1, Min(k, Len(Frame(doc))))]
    /\ wire' = [wire EXCEPT ![c] = SubSeq(Frame(doc), Min(k, Len(Frame(doc))) + 1, Len(Frame(doc)))]
    /\ UNCHANGED <<conn, backlog, peer, srvClosed, outbox>>
    /\ UNCHANGED <<acceptVars, client_dict, player, events, sprites, loopVars, fault, histVars>>
    /\ UNCHANGED offServer

\* the rest of the client's frame arrives
ClientDeliver(c) ==
    /\ wire[c] # <<>>
    /\ inbuf' = [inbuf EXCEPT ![c] = @ \o wire[c]]
    /\ wire' = [wire EXCEPT ![c] = <<>>]
    /\ UNCHANGED <<conn, backlog, peer, srvClosed, nsent, outbox>>
    /\ UNCHANGED <<acceptVars, client_dict, player, events, sprites, loopVars, fault, histVars>>
    /\ UNCHANGED offServer

\* the client closes its socket or exits
ClientClose(c) ==
    /\ conn[c] # "none"
    /\ peer[c] = "open"
    /\ ~srvClosed[c]
    /\ wire[c] = <<>>
    /\ peer' = [peer EXCEPT ![c] = "closed"]
    /\ UNCHANGED <<conn, backlog, srvClosed, inbuf, wire, nsent, outbox>>
    /\ UNCHANGED <<acceptVars, client_dict, player, events, sprites, loopVars, fault, histVars>>
    /\ UNCHANGED offServer

\* the client's connection is reset (its process is killed)
ClientReset(c) ==
    /\ conn[c] # "none"
    /\ peer[c] = "open"
    /\ ~srvClosed[c]
    /\ peer' = [peer EXCEPT ![c] = "reset"]
    /\ inbuf' = [inbuf EXCEPT ![c] = <<>>]
    /\ wire' = [wire EXCEPT ![c] = <<>>]
    /\ UNCHANGED <<conn, backlog, srvClosed, nsent, outbox>>
    /\ UNCHANGED <<acceptVars, client_dict, player, events, sprites, loopVars, fault, histVars>>
    /\ UNCHANGED offServer

(***************************************************************************)
(* server.receive_clients: the accept thread.                              *)
(***************************************************************************)
\* client_socket, client_address = server_socket.accept(); client_id = uuid.uuid4()
Accept ==
    /\ acceptPc = "accept"
    /\ backlog # <<>>
    /\ acceptId' = Head(backlog)
    /\ backlog' = Tail(backlog)
    /\ conn' = [conn EXCEPT ![Head(backlog)] = "accepted"]
    /\ acceptPc' = "send_id"
    /\ UNCHANGED <<peer, srvClosed, inbuf, wire, nsent, outbox>>
    /\ UNCHANGED <<client_dict, player, events, sprites, loopVars, fault, histVars>>
    /\ UNCHANGED offServer

\* receive_clients without its send of the identity
SendIdOmitted ==
    /\ acceptPc = "send_id"
    /\ acceptPc' = "insert"
    /\ UNCHANGED <<netVars, acceptId>>
    /\ UNCHANGED <<client_dict, player, events, sprites, loopVars, fault, histVars>>
    /\ UNCHANGED offServer

\* protocol.send_message(client_socket, json.dumps({"ID": str(client_id)}))
SendId ==
    /\ acceptPc = "send_id"
    /\ IF SockSend(peer[acceptId]) = "ok"
       THEN /\ outbox' = [outbox EXCEPT ![acceptId] = Append(@, "ID")]
            /\ peer' = [peer EXCEPT ![acceptId] = AfterSend(@)]
            /\ acceptPc' = "insert"
       ELSE /\ acceptPc' = "dead"
            /\ UNCHANGED <<outbox, peer>>
    /\ UNCHANGED <<conn, backlog, srvClosed, inbuf, wire, nsent, acceptId>>
    /\ UNCHANGED <<client_dict, player, events, sprites, loopVars, fault, histVars>>
    /\ UNCHANGED offServer

\* client_dict[client_id] = (client_socket, objects.Player(client_id, 0, 0, ...))
Insert ==
    /\ acceptPc = "insert"
    /\ client_dict' = Append(client_dict, acceptId)
    /\ player' = [player EXCEPT ![acceptId] = NewPlayer(0, 0)]
    /\ acceptPc' = "post"
    /\ UNCHANGED <<netVars, acceptId, events, sprites, loopVars, fault, histVars>>
    /\ UNCHANGED offServer

\* pygame.event.post(pygame.event.Event(EVENT_PLAYER_JOINED, client_id=client_id))
Post ==
    /\ acceptPc = "post"
    /\ events' = Append(events, acceptId)
    /\ acceptPc' = "accept"
    /\ UNCHANGED <<netVars, acceptId, client_dict, player, sprites, loopVars, fault, histVars>>
    /\ UNCHANGED offServer

(***************************************************************************)
(* server.main: the tick loop.  An exception that nothing catches ends the *)
(* main thread: mainPc becomes "crashed" and fault names the exception.    *)
(***************************************************************************)
\* the index of the first join signal whose identity is not a key of the
\* roster, Len(evs) + 1 if there is none
FirstMissing(evs, roster) ==
    IF \E i \in 1 .. Len(evs) : evs[i] \notin roster
    THEN CHOOSE i \in 1 .. Len(evs) :
            /\ evs[i] \notin roster
            /\ \A j \in 1 .. i - 1 : evs[j] \in roster
    ELSE Len(evs) + 1

\* for event in pygame.event.get(): ... client_dict[client_id] ...
\* sprites.add(player); players.add(player); player.setPos(130, 100)
DrainEvents ==
    /\ mainPc = "events"
    /\ tick < MaxTicks
    /\ LET stop == FirstMissing(events, Range(client_dict))
           done == {events[i] : i \in 1 .. stop - 1}
       IN  /\ sprites' = sprites \cup done
           /\ joined' = joined \cup done
           /\ player' = [c \in Clients |->
                           IF c \in done THEN SetPos(player[c], SPAWN_X, SPAWN_Y) ELSE player[c]]
           /\ IF stop <= Len(events)
              THEN mainPc' = "crashed" /\ fault' = "KeyError"
              ELSE mainPc' = "get_input" /\ fault' = fault
    /\ events' = <<>>
    /\ UNCHANGED <<netVars, acceptVars, client_dict>>
    /\ UNCHANGED <<todo, dataLen, inputs, message, fullState, iterPos, iterSize, tick>>
    /\ UNCHANGED <<polled, updated, recipients, quitRead>>
    /\ UNCHANGED offServer

\* inputs = {}; for client_id, (client_socket, _) in list(client_dict.items()):
GetInputStart ==
    /\ mainPc = "get_input"
    /\ todo' = client_dict
    /\ inputs' = EmptyMap
    /\ mainPc' = "poll"
    /\ UNCHANGED <<netVars, acceptVars, client_dict, player, events, sprites, fault, histVars>>
    /\ UNCHANGED <<dataLen, message, fullState, iterPos, iterSize, tick>>
    /\ UNCHANGED offServer

\* message = json.loads(message) and what get_input does with it, for the
\* text receive_message returned for client c
HandleMessage(c, text) ==
    LET value == JsonLoads(text)
        quit == Contains(ACK_TEXT, value)
    IN  /\ message' = text
        /\ IF value.kind = "error"
           THEN /\ mainPc' = "crashed"
                /\ fault' = "JSONDecodeError"
                /\ UNCHANGED <<quitRead, outbox, peer, srvClosed, client_dict, todo, inputs>>
           ELSE IF quit = "raise"
           THEN /\ mainPc' = "crashed"
                /\ fault' = "TypeError"
                /\ UNCHANGED <<quitRead, outbox, peer, srvClosed, client_dict, todo, inputs>>
           ELSE IF quit = "yes"
           THEN /\ quitRead' = quitRead \cup {c}
                /\ IF SockSend(peer[c]) = "ok"
                   THEN /\ outbox' = [outbox EXCEPT ![c] = Append(@, "ACK")]
                        /\ peer' = [peer EXCEPT ![c] = AfterSend(@)]
                        /\ srvClosed' = [srvClosed EXCEPT ![c] = TRUE]
                        /\ client_dict' = Remove(client_dict, c)
                        /\ todo' = Tail(todo)
                        /\ mainPc' = "poll"
                        /\ fault' = fault
                   ELSE /\ mainPc' = "crashed"
                        /\ fault' = SockSend(peer[c])
                        /\ UNCHANGED <<outbox, peer, srvClosed, client_dict, todo>>
                /\ inputs' = inputs
           ELSE /\ inputs' = (c :> value) @@ inputs
                /\ todo' = Tail(todo)
                /\ mainPc' = "poll"
                /\ UNCHANGED <<quitRead, outbox, peer, srvClosed, client_dict, fault>>

\* select.select([client_socket], [], [], 0), and when the socket is
\* readable the first recv of receive_message
Poll ==
    /\ mainPc = "poll"
    /\ todo # <<>>
    /\ LET c == Head(todo)
           h == RecvHeader(inbuf[c], peer[c])
       IN  /\ polled' = polled \cup {c}
           /\ IF ~Readable(inbuf[c], peer[c])
              THEN /\ inputs' = (c :> [kind |-> "list", items |-> {}]) @@ inputs
                   /\ todo' = Tail(todo)
                   /\ UNCHANGED <<inbuf, dataLen, mainPc, message, fault>>
                   /\ UNCHANGED <<quitRead, outbox, peer, srvClosed, client_dict>>
              ELSE IF h.kind = "payload"
              THEN /\ inbuf' = [inbuf EXCEPT ![c] = h.rest]
                   /\ dataLen' = h.len
                   /\ mainPc' = "recv_payload"
                   /\ UNCHANGED <<inputs, todo, message, fault>>
                   /\ UNCHANGED <<quitRead, outbox, peer, srvClosed, client_dict>>
              ELSE /\ inbuf' = [inbuf EXCEPT ![c] = h.rest]
                   /\ dataLen' = dataLen
                   /\ HandleMessage(c, h.value)
    /\ UNCHANGED <<conn, backlog, wire, nsent, acceptVars, player, events, sprites>>
    /\ UNCHANGED <<fullState, iterPos, iterSize, tick, joined, updated, recipients>>
    /\ UNCHANGED offServer

\* the second recv of receive_message: it waits until bytes arrive
RecvPayloadStep ==
    /\ mainPc = "recv_payload"
    /\ LET c == Head(todo)
           r == RecvPayload(inbuf[c], peer[c], dataLen)
       IN  /\ r.kind # "block"
           /\ inbuf' = [inbuf EXCEPT ![c] = r.rest]
           /\ IF r.kind = "raise"
              THEN /\ mainPc' = "crashed"
                   /\ fault' = r.fault
                   /\ UNCHANGED <<message, quitRead, outbox, peer, srvClosed, client_dict, todo, inputs>>
              ELSE HandleMessage(c, r.value)
    /\ UNCHANGED <<conn, backlog, wire, nsent, acceptVars, player, events, sprites>>
    /\ UNCHANGED <<dataLen, fullState, iterPos, iterSize, tick, joined, polled, updated, recipients>>
    /\ UNCHANGED offServer

\* return inputs; for client_id, action in actions.items():
\*     client_dict[client_id][1].update(action)
UpdatePlayers ==
    /\ mainPc = "poll"
    /\ todo = <<>>
    /\ player' = [c \in Clients |->
                    IF c \in DOMAIN inputs THEN Update(player[c], inputs[c]) ELSE player[c]]
    /\ updated' = updated \cup DOMAIN inputs
    /\ mainPc' = "send_state"
    /\ UNCHANGED <<netVars, acceptVars, client_dict, events, sprites, fault>>
    /\ UNCHANGED <<todo, dataLen, inputs, message, fullState, iterPos, iterSize, tick>>
    /\ UNCHANGED <<joined, polled, recipients, quitRead>>
    /\ UNCHANGED offServer

\* send_state: full_state from level_objects, then iter(client_dict.items())
BuildState ==
    /\ mainPc = "send_state"
    /\ fullState' = [LEVEL_LAYOUT |-> LevelLayout,
                     PLAYERS |-> [c \in sprites |-> [X |-> player[c].x, Y |-> player[c].y]]]
    /\ iterPos' = 0
    /\ iterSize' = Len(client_dict)
    /\ mainPc' = "broadcast"
    /\ UNCHANGED <<netVars, acceptVars, client_dict, player, events, sprites, fault, histVars>>
    /\ UNCHANGED <<todo, dataLen, inputs, message, tick>>
    /\ UNCHANGED offServer

\* the dict iterator finds the dict changed size: RuntimeError
BroadcastAbort ==
    /\ mainPc = "broadcast"
    /\ Len(client_dict) # iterSize
    /\ mainPc' = "crashed"
    /\ fault' = "RuntimeError"
    /\ UNCHANGED <<netVars, acceptVars, client_dict, player, events, sprites, histVars>>
    /\ UNCHANGED <<todo, dataLen, inputs, message, fullState, iterPos, iterSize, tick>>
    /\ UNCHANGED offServer

\* protocol.send_message(client_socket, json.dumps(full_state)) for the next entry
BroadcastSend ==
    /\ mainPc = "broadcast"
    /\ Len(client_dict) = iterSize
    /\ iterPos < Len(client_dict)
    /\ LET c == client_dict[iterPos + 1]
       IN  IF SockSend(peer[c]) = "ok"
           THEN /\ outbox' = [outbox EXCEPT ![c] = Append(@, "STATE")]
                /\ peer' = [peer EXCEPT ![c] = AfterSend(@)]
                /\ recipients' = recipients \cup {c}
                /\ iterPos' = iterPos + 1
                /\ UNCHANGED <<mainPc, fault>>
           ELSE /\ mainPc' = "crashed"
                /\ fault' = SockSend(peer[c])
                /\ UNCHANGED <<outbox, peer, recipients, iterPos>>
    /\ UNCHANGED <<conn, backlog, srvClosed, inbuf, wire, nsent>>
    /\ UNCHANGED <<acceptVars, client_dict, player, events, sprites>>
    /\ UNCHANGED <<todo, dataLen, inputs, message, fullState, iterSize, tick>>
    /\ UNCHANGED <<joined, polled, updated, quitRead>>
    /\ UNCHANGED offServer

\* the iteration ends; clock.tick(FRAME_RATE)
EndTick ==
    /\ mainPc = "broadcast"
    /\ Len(client_dict) = iterSize
    /\ iterPos = Len(client_dict)
    /\ tick' = tick + 1
    /\ mainPc' = "events"
    /\ UNCHANGED <<netVars, acceptVars, client_dict, player, events, sprites, fault, histVars>>
    /\ UNCHANGED <<todo, dataLen, inputs, message, fullState, iterPos, iterSize>>
    /\ UNCHANGED offServer

SrvNext ==
    \/ \E c \in Clients : ClientConnect(c)
    \/ \E c \in Clients, doc \in ClientDocs, k \in Cuts : ClientSend(c, doc, k)
    \/ \E c \in Clients : ClientDeliver(c)
    \/ \E c \in Clients : ClientClose(c)
    \/ \E c \in Clients : ClientReset(c)
    \/ Accept
    \/ SendId
    \/ Insert
    \/ Post
    \/ DrainEvents
    \/ GetInputStart
    \/ Poll
    \/ RecvPayloadStep
    \/ UpdatePlayers
    \/ BuildState
    \/ BroadcastAbort
    \/ BroadcastSend
    \/ EndTick

(***************************************************************************)
(* Specifications.                                                         *)
(***************************************************************************)
NoStatic == [hit |-> FALSE, x |-> 0, y |-> 0, side |-> 0 - 1]

\* no collision run
GeoIdle ==
    /\ gKind = "none"
    /\ gStart = <<0, 0>>
    /\ gEnd = <<0, 0>>
    /\ gBox = Rect(0, 0, 0, 0)
    /\ gBox1 = Rect(0, 0, 0, 0)
    /\ gSeg = Miss
    /\ gStat = NoStatic
    /\ gDone = FALSE

\* no Player stepped on its own
PhysIdle ==
    /\ pPlayer = NoPlayer
    /\ pStart = NoPlayer
    /\ pHist = <<>>

\* no header written on its own
HdrIdle ==
    /\ hLen = 0
    /\ hOut = <<>>
    /\ hDone = FALSE

\* the state = {} of client.main, its receive thread started
NoSnapshot == [LEVEL_LAYOUT |-> 0, PLAYERS |-> 0]

\* a client whose receive thread has just been started
CliInit ==
    /\ cWire = <<>>
    /\ cBuf = <<>>
    /\ cPeer = "open"
    /\ cSrvClosed = FALSE
    /\ cUp = <<>>
    /\ cSeq = 0
    /\ state = NoSnapshot
    /\ rxPc = "header"
    /\ rxLen = 0
    /\ cMainPc = "input"
    /\ itSize = 0
    /\ itPos = 0
    /\ drawn = <<>>
    /\ nInputs = 0

Init == SrvInit /\ ChInit /\ GeoIdle /\ PhysIdle /\ HdrIdle /\ CliInit

(***************************************************************************)
(* The collision runs: one call of segment_check or of static_body_check   *)
(* on inputs of a bounded grid, and on the cases the design names.         *)
(***************************************************************************)
Grid == 0 .. GridMax

SegBoxes == {Rect(l, t, w, h) : l \in Grid, t \in Grid, w \in 0 .. SizeMax, h \in 0 .. SizeMax}

StatBoxes ==
    {Rect(l, t, w, h) : l \in 0 .. StatPosMax, t \in 0 .. StatPosMax,
                        w \in 1 .. StatSizeMax, h \in 1 .. StatSizeMax}

\* the segments and boxes the design names
NamedSegments ==
    { [start |-> <<0, 50>>, end |-> <<100, 50>>, box |-> Rect(40, 0, 20, 100)],
      [start |-> <<0, 0>>, end |-> <<10, 0>>, box |-> Rect(100, 100, 100, 100)] }

\* boxA 10x10 centred at (0, 0), boxB 10x10 centred at (5, 0)
NamedStatics == { [box1 |-> Rect(0 - 5, 0 - 5, 10, 10), box2 |-> Rect(0, 0 - 5, 10, 10)] }

GeoInit ==
    /\ gSeg = Miss
    /\ gStat = NoStatic
    /\ gDone = FALSE
    /\ \/ /\ gKind = "segment"
          /\ gBox1 = Rect(0, 0, 0, 0)
          /\ \/ /\ gStart \in Grid \X Grid
                /\ gEnd \in Grid \X Grid
                /\ gBox \in SegBoxes
             \/ \E c \in NamedSegments :
                    gStart = c.start /\ gEnd = c.end /\ gBox = c.box
       \/ /\ gKind = "static"
          /\ gStart = <<0, 0>>
          /\ gEnd = <<0, 0>>
          /\ \/ /\ gBox1 \in StatBoxes
                /\ gBox \in StatBoxes
             \/ \E c \in NamedStatics : gBox1 = c.box1 /\ gBox = c.box2

\* collides, collision_point, side_hit = segment_check(start, end, box)
RunSegmentCheck ==
    /\ gKind = "segment"
    /\ ~gDone
    /\ gSeg' = SegmentCheck(gStart, gEnd, gBox)
    /\ gDone' = TRUE
    /\ UNCHANGED <<gKind, gStart, gEnd, gBox, gBox1, gStat>>
    /\ UNCHANGED offGeo

\* collides, collision_point, side_hit = static_body_check(box1, box2)
RunStaticBodyCheck ==
    /\ gKind = "static"
    /\ ~gDone
    /\ gStat' = StaticBodyCheck(gBox1, gBox)
    /\ gDone' = TRUE
    /\ UNCHANGED <<gKind, gStart, gEnd, gBox, gBox1, gSeg>>
    /\ UNCHANGED offGeo

GeoNext ==
    \/ RunSegmentCheck
    \/ RunStaticBodyCheck

GeoStart == SrvInit /\ ChInit /\ GeoInit /\ PhysIdle /\ HdrIdle /\ CliInit

\* the collision engine on the grid
GeoSpec == GeoStart /\ [][GeoNext]_vars

(***************************************************************************)
(* The simulation runs: one Player at rest, updated once per tick with the *)
(* actions of that tick, as main does for every roster entry.              *)
(***************************************************************************)
Word(w) == [kind |-> "list", items |-> {w}]

\* what json.loads gives for the lists a client sends, and [] for no input
Intents ==
    { JsonLoads(RIGHT_DOC), JsonLoads(EMPTY_DOC),
      Word(<<"L", "E", "F", "T">>), Word(<<"U", "P">>), Word(<<"D", "O", "W", "N">>) }

\* a Player as constructed, or as placed on the spawn point
PhysInit ==
    /\ pPlayer \in {NewPlayer(0, 0), SetPos(NewPlayer(0, 0), SPAWN_X, SPAWN_Y)}
    /\ pStart = pPlayer
    /\ pHist = <<>>

\* player.update(inputs.get(client_id, []))
PhysTick ==
    /\ Len(pHist) < MaxPhysTicks
    /\ \E a \in Intents :
           /\ pPlayer' = Update(pPlayer, a)
           /\ pHist' = Append(pHist, a)
    /\ UNCHANGED pStart
    /\ UNCHANGED offPhys

PhysNext == PhysTick

PhysStart == SrvInit /\ ChInit /\ GeoIdle /\ PhysInit /\ HdrIdle /\ CliInit

\* the simulation step on one Player
PhysSpec == PhysStart /\ [][PhysNext]_vars

(***************************************************************************)
(* The header runs: send_message builds the header for a payload of a      *)
(* given length; the lengths are the small ones and those around each      *)
(* power of ten up to 10^LENGTH_HEADER.                                    *)
(***************************************************************************)
Lengths ==
    (0 .. MaxHeaderLen)
        \cup {Pow(10, k) + d : k \in 1 .. LENGTH_HEADER, d \in {0 - 1, 0, 1}}

HdrInit ==
    /\ hLen \in Lengths
    /\ hOut = <<>>
    /\ hDone = FALSE

\* data = f"{str(data_length).zfill(LENGTH_HEADER)}".encode() + data
WriteHeader ==
    /\ ~hDone
    /\ hOut' = HeaderOf(hLen)
    /\ hDone' = TRUE
    /\ UNCHANGED hLen
    /\ UNCHANGED offHdr

HdrNext == WriteHeader

HdrStart == SrvInit /\ ChInit /\ GeoIdle /\ PhysIdle /\ HdrInit /\ CliInit

\* the header of one frame
HdrSpec == HdrStart /\ [][HdrNext]_vars

(***************************************************************************)
(* The client runs: one client after its receive thread was started, the   *)
(* server's ticks as far as they concern this client, and the byte stream  *)
(* from the server to the client.  The text of state broadcast n is        *)
(* abbreviated to {n}; the client's own messages reach the server whole.   *)
(***************************************************************************)
\* json.dumps(full_state) of the n-th broadcast
StateDoc(n) == <<"{", Digits[n + 1], "}">>

\* json.loads(data) on the client
ClientLoads(text) ==
    IF Len(text) = 3 /\ text[1] = "{" /\ IsDigit(text[2]) /\ text[3] = "}"
    THEN [kind |-> "dict", items |-> {}, n |-> DigitVal(text[2])]
    ELSE [kind |-> JsonLoads(text).kind, items |-> JsonLoads(text).items, n |-> 0]

\* receive_state after receive_message returned data: "return", or
\* state.update(json.loads(data)), which replaces both categories for a
\* broadcast ("update"), changes nothing for an empty list or string
\* ("same") and raises for every other value ("fault").  (No text of these
\* runs is a list of two-character strings, which update would take as
\* key and value.)
ReceiveStep(data) ==
    LET v == ClientLoads(data)
    IN  IF data = ACK_TEXT THEN "return"
        ELSE IF v.kind = "dict" THEN "update"
        ELSE IF v.kind = "list" /\ v.items = {} THEN "same"
        ELSE IF v.kind = "string" /\ v.items = {<<>>} THEN "same"
        ELSE "fault"

\* len(state)
SnapshotLen == IF state = NoSnapshot THEN 0 ELSE 2

\* main: handle_input returns ["QUIT"]; send it, thread.join(0), exit()
ClientQuit ==
    /\ cMainPc = "input"
    /\ cUp' = Append(cUp, "QUIT")
    /\ cMainPc' = "exited"
    /\ UNCHANGED <<cWire, cBuf, cPeer, cSrvClosed, cSeq, state, rxPc, rxLen,
                   itSize, itPos, drawn, nInputs>>
    /\ UNCHANGED offClient

\* main: handle_input returns movement intents; send them
ClientSendRequests ==
    /\ cMainPc = "input"
    /\ nInputs < MaxInputs
    /\ cUp' = Append(cUp, "INPUT")
    /\ nInputs' = nInputs + 1
    /\ cMainPc' = "draw_state"
    /\ UNCHANGED <<cWire, cBuf, cPeer, cSrvClosed, cSeq, state, rxPc, rxLen,
                   itSize, itPos, drawn>>
    /\ UNCHANGED offClient

\* main: handle_input returns []
ClientNoRequests ==
    /\ cMainPc = "input"
    /\ cMainPc' = "draw_state"
    /\ UNCHANGED <<cWire, cBuf, cPeer, cSrvClosed, cUp, cSeq, state, rxPc, rxLen,
                   itSize, itPos, drawn, nInputs>>
    /\ UNCHANGED offClient

\* for catalog, content in state.items(): the iterator is made
DrawBegin ==
    /\ cMainPc \in {"draw_state", "draw"}
    /\ itSize' = SnapshotLen
    /\ itPos' = 0
    /\ drawn' = <<>>
    /\ cMainPc' = IF cMainPc = "draw_state" THEN "draw_state_loop" ELSE "draw_loop"
    /\ UNCHANGED <<cWire, cBuf, cPeer, cSrvClosed, cUp, cSeq, state, rxPc, rxLen, nInputs>>
    /\ UNCHANGED offClient

\* the iterator's next entry is drawn: RuntimeError when the dict changed
\* its size, the end of the pass, or one category
DrawStep ==
    /\ cMainPc \in {"draw_state_loop", "draw_loop"}
    /\ IF SnapshotLen # itSize
       THEN /\ cMainPc' = "crashed"
            /\ UNCHANGED <<itPos, drawn>>
       ELSE IF itPos = itSize
       THEN /\ cMainPc' = IF cMainPc = "draw_state_loop" THEN "draw" ELSE "input"
            /\ UNCHANGED <<itPos, drawn>>
       ELSE /\ drawn' = Append(drawn, IF itPos = 0 THEN state.LEVEL_LAYOUT ELSE state.PLAYERS)
            /\ itPos' = itPos + 1
            /\ UNCHANGED cMainPc
    /\ UNCHANGED <<cWire, cBuf, cPeer, cSrvClosed, cUp, cSeq, state, rxPc, rxLen,
                   itSize, nInputs>>
    /\ UNCHANGED offClient

\* a tick of the server in which get_input reads this client's ["QUIT"]:
\* it writes the acknowledgement, closes the socket and drops the client
ServeQuit ==
    /\ ~cSrvClosed
    /\ cUp # <<>>
    /\ Head(cUp) = "QUIT"
    /\ cUp' = Tail(cUp)
    /\ cWire' = cWire \o Frame(ACK_TEXT)
    /\ cSrvClosed' = TRUE
    /\ UNCHANGED <<cBuf, cPeer, cSeq, state, rxPc, rxLen, cMainPc, itSize, itPos,
                   drawn, nInputs>>
    /\ UNCHANGED offClient

\* any other tick of the server: get_input reads this client's movement
\* intents if they have arrived, and send_state writes the next broadcast
ServeTick ==
    /\ ~cSrvClosed
    /\ cSeq < MaxBroadcasts
    /\ \/ cUp' = cUp
       \/ cUp # <<>> /\ Head(cUp) = "INPUT" /\ cUp' = Tail(cUp)
    /\ cWire' = cWire \o Frame(StateDoc(cSeq + 1))
    /\ cSeq' = cSeq + 1
    /\ UNCHANGED <<cBuf, cPeer, cSrvClosed, state, rxPc, rxLen, cMainPc, itSize, itPos,
                   drawn, nInputs>>
    /\ UNCHANGED offClient

\* the stream hands the client the next k bytes
CliDeliver(k) ==
    /\ k <= Len(cWire)
    /\ cBuf' = cBuf \o SubSeq(cWire, 1, k)
    /\ cWire' = SubSeq(cWire, k + 1, Len(cWire))
    /\ UNCHANGED <<cPeer, cSrvClosed, cUp, cSeq, state, rxPc, rxLen, cMainPc,
                   itSize, itPos, drawn, nInputs>>
    /\ UNCHANGED offClient

\* the FIN of the server's close() follows the bytes it wrote
CliFin ==
    /\ cSrvClosed
    /\ cWire = <<>>
    /\ cPeer = "open"
    /\ cPeer' = "closed"
    /\ UNCHANGED <<cWire, cBuf, cSrvClosed, cUp, cSeq, state, rxPc, rxLen, cMainPc,
                   itSize, itPos, drawn, nInputs>>
    /\ UNCHANGED offClient

\* receive_state, given the data receive_message returned
Received(data) ==
    /\ rxPc' = CASE ReceiveStep(data) = "return" -> "returned"
                 [] ReceiveStep(data) = "fault" -> "fault"
                 [] OTHER -> "header"
    /\ state' = IF ReceiveStep(data) = "update"
                THEN [LEVEL_LAYOUT |-> ClientLoads(data).n, PLAYERS |-> ClientLoads(data).n]
                ELSE state

\* receive_state: the first recv of receive_message
RxHeader ==
    /\ rxPc = "header"
    /\ LET r == RecvHeader(cBuf, cPeer)
       IN  /\ r.kind # "block"
           /\ cBuf' = r.rest
           /\ IF r.kind = "return"
              THEN Received(r.value) /\ rxLen' = rxLen
              ELSE rxPc' = "payload" /\ rxLen' = r.len /\ state' = state
    /\ UNCHANGED <<cWire, cPeer, cSrvClosed, cUp, cSeq, cMainPc, itSize, itPos,
                   drawn, nInputs>>
    /\ UNCHANGED offClient

\* receive_state: the second recv of receive_message, and what follows it
RxPayload ==
    /\ rxPc = "payload"
    /\ LET r == RecvPayload(cBuf, cPeer, rxLen)
       IN  /\ r.kind # "block"
           /\ cBuf' = r.rest
           /\ IF r.kind = "raise"
              THEN rxPc' = "fault" /\ state' = state
              ELSE Received(r.value)
    /\ UNCHANGED <<cWire, cPeer, cSrvClosed, cUp, cSeq, rxLen, cMainPc, itSize, itPos,
                   drawn, nInputs>>
    /\ UNCHANGED offClient

ClientNext ==
    \/ ClientQuit
    \/ ClientSendRequests
    \/ ClientNoRequests
    \/ DrawBegin
    \/ DrawStep
    \/ ServeQuit
    \/ ServeTick
    \/ \E k \in 1 .. (LENGTH_HEADER + 4) * (MaxBroadcasts + 1) : CliDeliver(k)
    \/ CliFin
    \/ RxHeader
    \/ RxPayload

ClientStart == SrvInit /\ ChInit /\ GeoIdle /\ PhysIdle /\ HdrIdle /\ CliInit

\* one client and its connection
ClientSpec == ClientStart /\ [][ClientNext]_vars

(***************************************************************************)
(* The client runs in which the server may vanish: its process ends and    *)
(* the system closes the connection, with a FIN behind the bytes written   *)
(* or with a reset.                                                        *)
(***************************************************************************)
\* the server's process ends; the FIN follows the bytes it wrote
SrvVanishFin ==
    /\ ~cSrvClosed
    /\ cSrvClosed' = TRUE
    /\ UNCHANGED <<cWire, cBuf, cPeer, cUp, cSeq, state, rxPc, rxLen, cMainPc,
                   itSize, itPos, drawn, nInputs>>
    /\ UNCHANGED offClient

\* the server's process ends and the connection is reset; bytes the client
\* has not read are discarded
SrvVanishReset ==
    /\ cPeer = "open"
    /\ cPeer' = "reset"
    /\ cSrvClosed' = TRUE
    /\ cWire' = <<>>
    /\ cBuf' = <<>>
    /\ UNCHANGED <<cUp, cSeq, state, rxPc, rxLen, cMainPc, itSize, itPos, drawn, nInputs>>
    /\ UNCHANGED offClient

VanishNext ==
    \/ ClientNext
    \/ SrvVanishFin
    \/ SrvVanishReset

\* one client and its connection to a server that may vanish
VanishSpec == ClientStart /\ [][VanishNext]_vars

Next == SrvNext

\* the server with its clients
Spec == Init /\ [][Next]_vars

FrameNext == ChNext

\* the framing protocol over one channel
FrameSpec == Init /\ [][FrameNext]_vars

(***************************************************************************)
(* Properties of the server (under Spec).                                  *)
(***************************************************************************)
\* the connections that were admitted (their identity was sent to them)
\* and whose disconnection get_input has not handled
LiveIds == {c \in Clients : conn[c] = "accepted" /\ outbox[c] # <<>> /\ c \notin quitRead}

\* C1: whenever receive_clients is between two admissions, the roster holds
\* exactly the identities of the live connections, each once: every admitted
\* connection is in it and none whose disconnection get_input handled.
RosterIsLiveConnections ==
    acceptPc = "accept" =>
        /\ Range(client_dict) = LiveIds
        /\ Cardinality(Range(client_dict)) = Len(client_dict)

\* C2: every state broadcast send_state builds has, as the keys of PLAYERS,
\* exactly the identities that are in the roster at that moment.
BroadcastPlayersAreRoster ==
    [][(mainPc = "send_state" /\ mainPc' = "broadcast")
         => DOMAIN fullState'.PLAYERS = Range(client_dict)]_vars

\* the tick loop is inside receive_message, waiting for bytes of one peer
WaitingOnPeer ==
    /\ mainPc = "recv_payload"
    /\ RecvPayload(inbuf[Head(todo)], peer[Head(todo)], dataLen).kind = "block"

\* C3: the tick loop never waits on a single peer: get_input never waits
\* for bytes that have not arrived, whatever part of a frame the client sent.
NeverWaitsOnPeer == ~WaitingOnPeer

\* C4: a send that fails because the remote end closed or reset never ends
\* the tick loop.
SendFailureIsNotFatal == ~(mainPc = "crashed" /\ fault = "BrokenPipeError")

\* C5: a well-framed message whose payload is no intent document (not
\* parseable, or not a list) never ends the tick loop.
BadPayloadIsNotFatal ==
    ~(/\ mainPc = "crashed"
      /\ fault \in {"JSONDecodeError", "TypeError"}
      /\ message \in {NULL_DOC, BAD_DOC})

\* C8: once the tick loop has read a disconnect intent from c, it has sent
\* the acknowledgement to c (its last message), closed c's connection and
\* removed c from the roster, and c has no input entry, is not polled again
\* and receives no broadcast.
DisconnectIsHandledInTick ==
    \A c \in quitRead :
        /\ outbox[c] # <<>>
        /\ outbox[c][Len(outbox[c])] = "ACK"
        /\ srvClosed[c]
        /\ c \notin Range(client_dict)
        /\ c \notin DOMAIN inputs
        /\ c \notin Range(todo)

\* C9: an identity is polled for input, updated by Player.update and sent a
\* broadcast only after the event drain consumed its join signal.
EntersThroughJoinSignal == (polled \cup updated \cup recipients) \subseteq joined

\* C10: no iteration of the tick loop over the roster is aborted by an
\* insertion or a removal that happens during it.
IterationIsNeverAborted == ~(mainPc = "crashed" /\ fault = "RuntimeError")

(***************************************************************************)
(* Properties of the framing protocol (under FrameSpec).                   *)
(***************************************************************************)
\* C6: while the channel is open and carries only frames of send_message,
\* the k-th receive_message returns exactly the k-th payload sent, however
\* the stream delivers the bytes.
FramingRoundTrip ==
    (chPeer = "open" /\ ~chRaw) =>
        \A k \in 1 .. Len(chGot) : k <= Len(chSent) /\ chGot[k].value = chSent[k]

\* C7: receive_message never raises, and a call that found the channel
\* closed or reset, or a header that is no non-negative integer, returned
\* the DISCONNECT signal.
ReceiveNeverRaises ==
    /\ chPc # "raised"
    /\ \A k \in 1 .. Len(chGot) : chGot[k].gone => chGot[k].value = QUIT_DOC

(***************************************************************************)
(* Further properties of the server (under Spec).                          *)
(***************************************************************************)
\* C11: the first message the server writes to a connection is the ID
\* message, it is written once, and so no state broadcast (and no
\* acknowledgement) precedes it, however receive_clients and the tick loop
\* interleave.
IdIsFirstMessage ==
    \A c \in Clients :
        outbox[c] # <<>> =>
            /\ outbox[c][1] = "ID"
            /\ \A i \in 2 .. Len(outbox[c]) : outbox[c][i] # "ID"

\* a connection that got its ID and then a state broadcast, while the accept
\* thread is in the middle of admitting another one
IdThenBroadcast ==
    \E c \in Clients :
        /\ Len(outbox[c]) >= 2
        /\ outbox[c][2] = "STATE"
        /\ acceptPc \in {"insert", "post"}
        /\ acceptId # c

(***************************************************************************)
(* Properties of the collision engine (under GeoSpec).                     *)
(***************************************************************************)
SegmentDone == gKind = "segment" /\ gDone

StaticDone == gKind = "static" /\ gDone

\* the point start + t * (end - start), t = a fraction, lies in the closed box
PointInBox(start, end, box, t) ==
    /\ box.left * t.d <= start[1] * t.d + t.n * (end[1] - start[1])
    /\ start[1] * t.d + t.n * (end[1] - start[1]) <= RectRight(box) * t.d
    /\ box.top * t.d <= start[2] * t.d + t.n * (end[2] - start[2])
    /\ start[2] * t.d + t.n * (end[2] - start[2]) <= RectBottom(box) * t.d

\* the parameters at which the segment's line meets the lines of the four
\* box sides, and 0: when some point of the segment is in the box, the first
\* such point is at one of them
Crossings(start, end, box) ==
    {Frac(0, 1)}
        \cup (IF end[1] # start[1]
              THEN {Frac(box.left - start[1], end[1] - start[1]),
                    Frac(RectRight(box) - start[1], end[1] - start[1])}
              ELSE {})
        \cup (IF end[2] # start[2]
              THEN {Frac(box.top - start[2], end[2] - start[2]),
                    Frac(RectBottom(box) - start[2], end[2] - start[2])}
              ELSE {})

\* some point start + t * (end - start), 0 <= t <= 1, lies in the closed box
Intersects(start, end, box) ==
    \E t \in Crossings(start, end, box) :
        /\ 0 <= t.n
        /\ t.n <= t.d
        /\ PointInBox(start, end, box, t)

\* the segment starts left of the box and crosses the line of its left edge
\* in +x direction, at a height within the box's vertical extent
CrossesLeftEdge(start, end, box) ==
    /\ start[1] < box.left
    /\ end[1] > box.left
    /\ PointInBox(start, end, box, Frac(box.left - start[1], end[1] - start[1]))

\* C13: for a segment that starts left of the box and crosses its left edge
\* in +x direction within its vertical extent, segment_check reports an
\* intersection at the point on x = box.left, with hit side 1 (left).
LeftEntryReportsLeft ==
    (SegmentDone /\ CrossesLeftEdge(gStart, gEnd, gBox)) =>
        /\ gSeg.hit
        /\ gSeg.px.n = gBox.left * gSeg.px.d
        /\ gSeg.side = 1

\* C14: segment_check reports an intersection exactly when some point of
\* the segment lies in the closed box (zero-length and axis-parallel
\* segments included); (0,0)-(10,0) misses the box 100..200 x 100..200.
SegmentCheckIsExact ==
    SegmentDone => (gSeg.hit <=> Intersects(gStart, gEnd, gBox))

\* segment_check returned for the miss the design names
NamedMissChecked ==
    /\ SegmentDone
    /\ gStart = <<0, 0>>
    /\ gEnd = <<10, 0>>
    /\ gBox = Rect(100, 100, 100, 100)
    /\ ~gSeg.hit

\* the start point lies in the closed box
StartInBox == PointInBox(gStart, gEnd, gBox, Frac(0, 1))

\* the intersection point lies on the boundary of the box
PointOnBoundary ==
    /\ gBox.left * gSeg.px.d <= gSeg.px.n
    /\ gSeg.px.n <= RectRight(gBox) * gSeg.px.d
    /\ gBox.top * gSeg.py.d <= gSeg.py.n
    /\ gSeg.py.n <= RectBottom(gBox) * gSeg.py.d
    /\ \/ gSeg.px.n = gBox.left * gSeg.px.d
       \/ gSeg.px.n = RectRight(gBox) * gSeg.px.d
       \/ gSeg.py.n = gBox.top * gSeg.py.d
       \/ gSeg.py.n = RectBottom(gBox) * gSeg.py.d

\* C19: when segment_check reports an intersection, the hit side is -1
\* exactly when the start point lies in the closed box; otherwise the start
\* is outside the box and the intersection point is on the box boundary.
SideIsUnsetIffStartInside ==
    (SegmentDone /\ gSeg.hit) =>
        /\ (gSeg.side = 0 - 1) <=> StartInBox
        /\ gSeg.side # 0 - 1 => (~StartInBox /\ PointOnBoundary)

\* an intersection of a slanted segment that starts outside the box
SlantedEntryChecked ==
    /\ SegmentDone
    /\ gSeg.hit
    /\ gSeg.side # 0 - 1
    /\ gStart[1] # gEnd[1]
    /\ gStart[2] # gEnd[2]

\* Rect.colliderect
Overlap(a, b) ==
    /\ a.left < RectRight(b)
    /\ b.left < RectRight(a)
    /\ a.top < RectBottom(b)
    /\ b.top < RectBottom(a)

\* twice the gap of the two boxes along x and along y
GapX2 == 2 * Abs(CenterX(gBox) - CenterX(gBox1)) - gBox1.width - gBox.width

GapY2 == 2 * Abs(CenterY(gBox) - CenterY(gBox1)) - gBox1.height - gBox.height

\* C15: for two overlapping boxes static_body_check resolves along the axis
\* with the smaller |gap| and takes the side from the sign of the centre
\* delta on that axis (0 right / 1 left on x, 2 bottom / 3 top on y); boxA
\* 10x10 at (0,0) against boxB 10x10 at (5,0) resolves to boxB's left, side 1.
LeastPenetrationAxis ==
    (StaticDone /\ Overlap(gBox1, gBox)) =>
        /\ Abs(GapX2) < Abs(GapY2) => gStat.side \in {0, 1}
        /\ Abs(GapY2) < Abs(GapX2) => gStat.side \in {2, 3}
        /\ gStat.side = 0 => CenterX(gBox) < CenterX(gBox1)
        /\ gStat.side = 1 => CenterX(gBox) >= CenterX(gBox1)
        /\ gStat.side = 2 => CenterY(gBox) < CenterY(gBox1)
        /\ gStat.side = 3 => CenterY(gBox) >= CenterY(gBox1)
        /\ gStat.side = 1 => gStat.x + gBox1.width = gBox.left
        /\ (gBox1 = Rect(0 - 5, 0 - 5, 10, 10) /\ gBox = Rect(0, 0 - 5, 10, 10))
              => gStat.side = 1

\* static_body_check returned for the two boxes the design names
NamedOverlapChecked ==
    /\ StaticDone
    /\ gBox1 = Rect(0 - 5, 0 - 5, 10, 10)
    /\ gBox = Rect(0, 0 - 5, 10, 10)
    /\ gStat.side = 1

\* C20: box1 moved so that its top-left corner is the point
\* static_body_check returned no longer overlaps box2, in each branch.
ResolvedBoxIsClear ==
    (StaticDone /\ Overlap(gBox1, gBox)) =>
        ~Overlap(Rect(gStat.x, gStat.y, gBox1.width, gBox1.height), gBox)

(***************************************************************************)
(* Properties of the simulation step (under PhysSpec).                     *)
(***************************************************************************)
\* 10 * (1 - 0.9^k) in fixed point, exact while 10^k divides 10 * FP
ClosedV(k) == ((FRICTION_DIV * FP) \div Pow(FRICTION_DIV, k)) * (Pow(FRICTION_DIV, k) - Pow(FRICTION_DIV - 1, k))

RECURSIVE ClosedSum(_)
\* the sum of ClosedV(k) for k = 1 .. n
ClosedSum(n) == IF n = 0 THEN 0 ELSE ClosedSum(n - 1) + ClosedV(n)

\* every tick so far had the input ["RIGHT"]
OnlyRight == \A i \in 1 .. Len(pHist) : pHist[i] = JsonLoads(RIGHT_DOC)

\* C16: a Player at rest whose input is ["RIGHT"] in each of N consecutive
\* ticks is displaced in x by the sum over k = 1 .. N of 10 * (1 - 0.9^k),
\* which is 13.1441 for N = 5, and keeps its y.
RightRunMatchesClosedForm ==
    (pHist # <<>> /\ OnlyRight) =>
        /\ pPlayer.x - pStart.x = ClosedSum(Len(pHist))
        /\ pPlayer.y = pStart.y
        /\ Len(pHist) = 5 => pPlayer.x - pStart.x = 13 * FP + 1441 * (FP \div 10000)

\* five ticks of ["RIGHT"] from the spawn point
FiveRightTicks ==
    /\ Len(pHist) = 5
    /\ OnlyRight
    /\ pStart = SetPos(NewPlayer(0, 0), SPAWN_X, SPAWN_Y)
    /\ pPlayer.x > pStart.x

(***************************************************************************)
(* Properties of the header (under HdrSpec).                               *)
(***************************************************************************)
\* the largest length LENGTH_HEADER digits can write
MaxPayload == Pow(10, LENGTH_HEADER) - 1

\* the bytes in front of the payload are LENGTH_HEADER digits whose value
\* is the payload's length
HeaderIsExact ==
    /\ Len(hOut) = LENGTH_HEADER
    /\ AllDigits(hOut)
    /\ DigitsVal(hOut) = hLen

\* C18: for every payload, whatever its length, send_message writes a
\* header of exactly LENGTH_HEADER zero-padded decimal digits equal to the
\* payload's byte length.
HeaderIsAlwaysFixedWidth == hDone => HeaderIsExact

\* C18, amended: for every payload of at most 10^LENGTH_HEADER - 1 bytes
\* send_message writes a header of exactly LENGTH_HEADER zero-padded decimal
\* digits equal to the payload's byte length.
HeaderIsFixedWidthUpToMax == (hDone /\ hLen <= MaxPayload) => HeaderIsExact

\* the header of the longest payload that fits
LongestHeaderWritten ==
    /\ hDone
    /\ hLen = MaxPayload
    /\ hOut = [i \in 1 .. LENGTH_HEADER |-> "9"]

(***************************************************************************)
(* Properties of the client (under ClientSpec).                            *)
(***************************************************************************)
\* C12: after the client sent ["QUIT"], its receive activity receives the
\* acknowledgement and ends by returning, without a fault, after the
\* broadcasts written before the acknowledgement; stated for what a finite
\* run shows: the receive activity never ends in a fault, and once the
\* acknowledgement has arrived and every byte is read it has returned.
ReceiveEndsCleanlyAfterQuit ==
    cMainPc = "exited" =>
        /\ rxPc # "fault"
        /\ (cSrvClosed /\ cWire = <<>> /\ cBuf = <<>>) => rxPc = "returned"

\* C17: the snapshot is always the content of one broadcast as a whole, and
\* the categories one pass of the draw loop draws are of one broadcast.
SnapshotIsOneBroadcast ==
    /\ state.LEVEL_LAYOUT = state.PLAYERS
    /\ \A i \in 1 .. Len(drawn) : drawn[i] = drawn[1]

(***************************************************************************)
(* Further properties of the tick loop (under Spec).                       *)
(***************************************************************************)
\* C22: whenever the tick loop drains a join signal for identity c, c is
\* still in the roster: the lookup client_dict[c] of the drain never fails
\* and the loop does not abort, also when c was admitted and its QUIT was
\* handled by get_input before its join signal is consumed.
JoinLookupNeverFails == ~(mainPc = "crashed" /\ fault = "KeyError")

(***************************************************************************)
(* Properties of the client when the server vanishes (under VanishSpec).   *)
(***************************************************************************)
\* the receive_message call that receive_state is in finds the connection
\* closed or reset and returns the disconnect signal
ReportsVanished ==
    /\ rxPc = "header"
    /\ RecvHeader(cBuf, cPeer).kind = "return"
    /\ cPeer = "reset" \/ (cPeer = "closed" /\ cBuf = <<>>)

\* C21: when receive_message returns the disconnect signal because the
\* connection was closed or reset, receive_state stops by returning,
\* without a fault, and does not apply the signal to the snapshot.
DisconnectStopsReceiveLoop ==
    [][(ReportsVanished /\ rxPc' # rxPc) => (rxPc' = "returned" /\ state' = state)]_vars

====
